---- MODULE Spec2Model ----
(***************************************************************************)
(* Model of cursive's Dialog view (src/view/dialog.rs): a content view, a  *)
(* row of buttons, an optional title, and the focus state machine that     *)
(* routes key events between the content and the buttons.                  *)
(*                                                                         *)
(* Indices are 0-based as in the Rust source: Button(i) designates         *)
(* buttons[i + 1] of the TLA+ sequence.                                    *)
(***************************************************************************)
EXTENDS Integers, Sequences, FiniteSets, TLC

VARIABLES title, content, buttons, focus, pc, last

vars == <<title, content, buttons, focus, pc, last>>

----------------------------------------------------------------------------
(* Bounds of the model.                                                    *)

MaxButtons == 2

(* The lengths in bytes of the titles given to Dialog::title.              *)
TitleLens == {0, 2, 5}

(* Minimum sizes a button may declare.                                     *)
ButtonDims == {<<4, 1>>, <<6, 2>>}

----------------------------------------------------------------------------
(* Geometry: Vec2 and Margins.                                             *)

Max(a, b) == IF a >= b THEN a ELSE b

Min(a, b) == IF a <= b THEN a ELSE b

Vec2(x, y) == [x |-> x, y |-> y]

Vec2Add(a, b) == Vec2(a.x + b.x, a.y + b.y)

(* Subtraction of sizes clamps at zero on each axis.                       *)
Vec2Sub(a, b) == Vec2(Max(a.x - b.x, 0), Max(a.y - b.y, 0))

Margins(l, r, t, b) == [left |-> l, right |-> r, top |-> t, bottom |-> b]

combined(m) == Vec2(m.left + m.right, m.top + m.bottom)

top_left(m) == Vec2(m.left, m.top)

bot_right(m) == Vec2(m.right, m.bottom)

padding == Margins(1, 1, 0, 0)

borders == Margins(1, 1, 1, 1)

----------------------------------------------------------------------------
(* Key codes and event results.                                            *)

KEY_DOWN == 258

KEY_UP == 259

KEY_LEFT == 260

KEY_RIGHT == 261

(* Enter (10) stands for the keys the dialog gives no meaning to.          *)
Keys == {KEY_DOWN, KEY_UP, KEY_LEFT, KEY_RIGHT, 10}

Ignored == [kind |-> "Ignored"]

Consumed(cb) == [kind |-> "Consumed", cb |-> cb]

(* What a child's on_key_event may answer: Ignored, Consumed(None) or      *)
(* Consumed(Some(callback)).                                               *)
ChildResults == {Ignored, Consumed("None"), Consumed("Some")}

----------------------------------------------------------------------------
(* Focus.                                                                  *)

Content == [tag |-> "Content"]

Button(i) == [tag |-> "Button", i |-> i]

(* What an on_key_event call leaves behind: the new focus, the returned   *)
(* EventResult, whether content.take_focus() was called, and whether       *)
(* indexing buttons[i] panicked.                                           *)
Outcome(f, res, asked) ==
    [focus |-> f, res |-> res, asked |-> asked, panic |-> FALSE]

(* on_key_content without the test that a button exists.                  *)
on_key_content_no_button_test(f, nb, ch, child) ==
    IF child = Ignored
    THEN IF ch = KEY_DOWN
         THEN Outcome(Button(0), Consumed("None"), FALSE)
         ELSE Outcome(f, Ignored, FALSE)
    ELSE Outcome(f, child, FALSE)

(* The Focus::Content arm of on_key_event: child is the answer of the      *)
(* content to the key.                                                     *)
on_key_content(f, nb, ch, child) ==
    IF child = Ignored /\ nb > 0
    THEN IF ch = KEY_DOWN
         THEN Outcome(Button(0), Consumed("None"), FALSE)
         ELSE Outcome(f, Ignored, FALSE)
    ELSE Outcome(f, child, FALSE)

(* key_up that moves to the content whatever take_focus() answers.        *)
key_up_unconditional(f, ctf) == Outcome(Content, Consumed("None"), TRUE)

(* key_up that moves to the content even when it refuses the focus.       *)
key_up_ignores_refusal(f, ctf) ==
    Outcome(Content, IF ctf THEN Consumed("None") ELSE Ignored, TRUE)

(* The KEY_UP arm: back to the content if it takes the focus; ctf is the   *)
(* answer of content.take_focus().                                         *)
key_up(f, ctf) ==
    IF ctf
    THEN Outcome(Content, Consumed("None"), TRUE)
    ELSE Outcome(f, Ignored, TRUE)

(* key_right_guard off by one.                                             *)
key_right_guard_off_by_one(i, nb) == i + 1 <= nb

(* The guard of the KEY_RIGHT arm.                                         *)
key_right_guard(i, nb) == i + 1 < nb

(* key_right_focus that skips a button.                                   *)
key_right_focus_skip(i) == Button(i + 2)

(* The focus the KEY_RIGHT arm sets.                                       *)
key_right_focus(i) == Button(i + 1)

(* key_left_guard off by one.                                              *)
key_left_guard_off_by_one(i) == i >= 0

(* The guard of the KEY_LEFT arm.                                          *)
key_left_guard(i) == i > 0

(* key_left_focus that leaves the focus where it is.                       *)
key_left_focus_stays(i) == Button(i)

(* The focus the KEY_LEFT arm sets.                                        *)
key_left_focus(i) == Button(i - 1)

(* The Focus::Button(i) arm of on_key_event: child is the answer of        *)
(* buttons[i] to the key, ctf that of content.take_focus() if asked.       *)
on_key_button(f, nb, ch, child, ctf) ==
    IF f.i >= nb
    THEN [focus |-> f, res |-> Ignored, asked |-> FALSE, panic |-> TRUE]
    ELSE IF child = Ignored
         THEN IF ch = KEY_UP
              THEN key_up(f, ctf)
              ELSE IF ch = KEY_RIGHT /\ key_right_guard(f.i, nb)
              THEN Outcome(key_right_focus(f.i), Consumed("None"), FALSE)
              ELSE IF ch = KEY_LEFT /\ key_left_guard(f.i)
              THEN Outcome(key_left_focus(f.i), Consumed("None"), FALSE)
              ELSE Outcome(f, Ignored, FALSE)
         ELSE Outcome(f, child, FALSE)

(* forwarded that hands every key to the content.                          *)
forwarded_to_content(f, ch) == <<[to |-> <<"content">>, ch |-> ch]>>

(* The on_key_event calls Dialog::on_key_event makes on its children, in   *)
(* order: the key goes to the content from Focus::Content and to           *)
(* buttons[i] from Focus::Button(i).                                       *)
forwarded(f, ch) ==
    IF f = Content
    THEN <<[to |-> <<"content">>, ch |-> ch]>>
    ELSE <<[to |-> <<"button", f.i>>, ch |-> ch]>>

(* on_key_event that moves the focus on an arrow key even when the button  *)
(* consumed it.                                                            *)
on_key_event_answer_dropped(f, nb, ch, child, ctf) ==
    IF f = Content
    THEN on_key_content(f, nb, ch, child)
    ELSE on_key_button(f, nb, ch, Ignored, ctf)

(* Dialog::on_key_event.  f is the focus at the call, nb the number of     *)
(* buttons, ch the key, child the answer of the child the key is forwarded *)
(* to, ctf the answer content.take_focus() gives if it is asked.           *)
on_key_event(f, nb, ch, child, ctf) ==
    IF f = Content
    THEN on_key_content(f, nb, ch, child)
    ELSE on_key_button(f, nb, ch, child, ctf)

(* take_focus that prefers a content willing to take the focus.           *)
take_focus_content_first(nb, ctf) ==
    IF nb > 0 /\ ~ctf
    THEN [focus |-> Button(0), res |-> TRUE, asked |-> TRUE]
    ELSE [focus |-> Content, res |-> ctf, asked |-> TRUE]

(* take_focus that always reports success.                                 *)
take_focus_always_true(nb, ctf) ==
    IF nb > 0
    THEN [focus |-> Button(0), res |-> TRUE, asked |-> FALSE]
    ELSE [focus |-> Content, res |-> TRUE, asked |-> TRUE]

(* Dialog::take_focus.  nb is the number of buttons, ctf the answer        *)
(* content.take_focus() gives if it is asked.                              *)
take_focus(nb, ctf) ==
    IF nb > 0
    THEN [focus |-> Button(0), res |-> TRUE, asked |-> FALSE]
    ELSE [focus |-> Content, res |-> ctf, asked |-> TRUE]

----------------------------------------------------------------------------
(* Size negotiation.                                                       *)

Fixed(n) == [kind |-> "Fixed", n |-> n]

AtMost(n) == [kind |-> "AtMost", n |-> n]

Unknown == [kind |-> "Unknown"]

SizeRequest(w, h) == [w |-> w, h |-> h]

(* DimensionRequest::reduced: a bounded request shrinks by the offset.     *)
dim_reduced(d, offset) ==
    IF d.kind = "Unknown" THEN d
    ELSE [kind |-> d.kind, n |-> Max(d.n - offset, 0)]

(* SizeRequest::reduced.                                                   *)
reduced(req, v) == SizeRequest(dim_reduced(req.w, v.x), dim_reduced(req.h, v.y))

(* The answer of a child view to get_min_size on one axis: a rigid view    *)
(* always declares its own minimum n; a flexible one (wrapping text) fits  *)
(* itself to a bounded request.                                            *)
dim_min_size(n, flex, d) ==
    IF ~flex \/ d.kind = "Unknown" THEN n
    ELSE IF d.kind = "Fixed" THEN d.n
    ELSE Min(n, d.n)

(* View::get_min_size of a child view.                                     *)
view_min_size(view, req) ==
    Vec2(dim_min_size(view.w, view.flex, req.w),
         dim_min_size(view.h, view.flex, req.h))

(* buttons_min_size without the blank cell after each button.             *)
RECURSIVE buttons_min_size_no_gap(_, _)
buttons_min_size_no_gap(bs, req) ==
    IF bs = <<>> THEN Vec2(0, 0)
    ELSE LET acc == buttons_min_size_no_gap(SubSeq(bs, 1, Len(bs) - 1), req)
             s   == view_min_size(bs[Len(bs)].view, req)
         IN  Vec2(acc.x + s.x, Max(acc.y, s.y + 1))

(* The loop of Dialog::get_min_size over the buttons, in order: widths     *)
(* plus one add up, the height is the largest height plus one.             *)
RECURSIVE buttons_min_size(_, _)
buttons_min_size(bs, req) ==
    IF bs = <<>> THEN Vec2(0, 0)
    ELSE LET acc == buttons_min_size(SubSeq(bs, 1, Len(bs) - 1), req)
             s   == view_min_size(bs[Len(bs)].view, req)
         IN  Vec2(acc.x + s.x + 1, Max(acc.y, s.y + 1))

(* title_min_width that leaves no room for the junction glyphs.           *)
title_min_width_no_junctions(len) == len + 2

(* The widening of get_min_size for a title of len bytes: two junction     *)
(* glyphs and a blank on each side.                                        *)
title_min_width(len) == len + 6

(* Dialog::get_min_size for title t, content c, buttons bs.                *)
get_min_size(t, c, bs, req) ==
    LET content_req  == reduced(req, Vec2Add(combined(padding), combined(borders)))
        content_size == view_min_size(c, content_req)
        buttons_size == buttons_min_size(bs, req)
        inner_size   == Vec2Add(Vec2Add(Vec2(Max(content_size.x, buttons_size.x),
                                             content_size.y + buttons_size.y),
                                        combined(padding)),
                                combined(borders))
    IN  IF Len(t) > 0
        THEN Vec2(Max(inner_size.x, title_min_width(Len(t))), inner_size.y)
        ELSE inner_size

(* SizedView::get_min_size delegates to the wrapped view.                  *)
sized_min_size(b, req) == view_min_size(b.view, req)

(* SizedView::layout remembers the size it was given.                      *)
sized_layout(b, size) == [b EXCEPT !.size = size]

(* buttons_height that adds the heights up instead of taking the largest.  *)
RECURSIVE buttons_height_sum(_, _)
buttons_height_sum(bs, req) ==
    IF bs = <<>> THEN 0
    ELSE buttons_height_sum(SubSeq(bs, 1, Len(bs) - 1), req)
            + sized_min_size(bs[Len(bs)], req).y + 1

(* The loop of Dialog::layout: the largest button height plus one.         *)
RECURSIVE buttons_height(_, _)
buttons_height(bs, req) ==
    IF bs = <<>> THEN 0
    ELSE Max(buttons_height(SubSeq(bs, 1, Len(bs) - 1), req),
             sized_min_size(bs[Len(bs)], req).y + 1)

(* layout that hands the whole interior to the content.                    *)
layout_content_whole_interior(bs, size) ==
    LET inner == Vec2Sub(size, Vec2Add(combined(borders), combined(padding)))
        req   == SizeRequest(AtMost(inner.x), AtMost(inner.y))
    IN  [buttons |-> [k \in 1..Len(bs) |->
                         sized_layout(bs[k], sized_min_size(bs[k], req))],
         content_size |-> inner]

(* Dialog::layout: the buttons after the call, and the size handed to the  *)
(* content.                                                                *)
layout(bs, size) ==
    LET inner == Vec2Sub(size, Vec2Add(combined(borders), combined(padding)))
        req   == SizeRequest(AtMost(inner.x), AtMost(inner.y))
    IN  [buttons |-> [k \in 1..Len(bs) |->
                         sized_layout(bs[k], sized_min_size(bs[k], req))],
         content_size |-> Vec2Sub(inner, Vec2(0, buttons_height(bs, req)))]

----------------------------------------------------------------------------
(* Drawing.                                                                *)

(* A u32 value v + k * 2^31, k in 0..2: k > 0 only after a subtraction     *)
(* wrapped around.                                                         *)
U32(v, k) == [v |-> v, k |-> k]

(* draw_x that leaves no blank between two buttons.                        *)
RECURSIVE draw_x_no_gap(_, _)
draw_x_no_gap(bs, k) ==
    IF k >= Len(bs) THEN 0
    ELSE draw_x_no_gap(bs, k + 1) + bs[k + 1].size.x

(* x of the button drawn at index k (1-based): the widths plus one of the  *)
(* buttons to its right, which the reversed loop has drawn before it.      *)
RECURSIVE draw_x(_, _)
draw_x(bs, k) ==
    IF k >= Len(bs) THEN 0
    ELSE draw_x(bs, k + 1) + bs[k + 1].size.x + 1

(* height at the end of the loop of Dialog::draw.                          *)
RECURSIVE draw_height(_)
draw_height(bs) ==
    IF bs = <<>> THEN 0
    ELSE Max(draw_height(SubSeq(bs, 1, Len(bs) - 1)), bs[Len(bs)].size.y + 1)

(* draw_button that highlights the focused button of an unfocused dialog.  *)
draw_button_unfocused_highlight(bs, f, k, psize, focused) ==
    [offset |-> Vec2Sub(Vec2Sub(Vec2Sub(Vec2Sub(psize, bot_right(borders)),
                                        bot_right(padding)),
                                bs[k].size),
                        Vec2(draw_x(bs, k), 0)),
     size |-> bs[k].size,
     has_focus |-> f = Button(k - 1)]

(* The sub-printer and focus flag of button k (1-based) in Dialog::draw.   *)
draw_button(bs, f, k, psize, focused) ==
    [offset |-> Vec2Sub(Vec2Sub(Vec2Sub(Vec2Sub(psize, bot_right(borders)),
                                        bot_right(padding)),
                                bs[k].size),
                        Vec2(draw_x(bs, k), 0)),
     size |-> bs[k].size,
     has_focus |-> focused /\ f = Button(k - 1)]

(* The sub-printer and focus flag of the content in Dialog::draw.          *)
draw_content(bs, f, psize, focused) ==
    [offset |-> Vec2Add(top_left(borders), top_left(padding)),
     size |-> Vec2Sub(Vec2Sub(Vec2Sub(psize, Vec2(0, draw_height(bs))),
                              combined(borders)),
                      combined(padding)),
     has_focus |-> focused /\ f = Content]

(* draw_title that aligns the title to the right instead of centring it.   *)
draw_title_not_halved(t, w) ==
    LET d  == w - Len(t)
        x  == IF d >= 0 THEN U32(d, 0) ELSE U32(d, 1)
        lx == IF x.k = 0 /\ x.v < 2 THEN U32(x.v - 2, 2) ELSE U32(x.v - 2, x.k)
    IN  [drawn |-> Len(t) > 0,
         x |-> x, left |-> lx, right |-> U32(x.v + Len(t), x.k),
         underflow |-> Len(t) > 0 /\ (d < 0 \/ lx.k = 2)]

(* The title of Dialog::draw on a printer of width w: x, the column x - 2  *)
(* of the left junction and the column x + len of the right one, computed  *)
(* in u32; underflow tells whether a subtraction went below zero.          *)
draw_title(t, w) ==
    LET d  == w - Len(t)
        x  == IF d >= 0 THEN U32(d \div 2, 0) ELSE U32(d \div 2, 1)
        lx == IF x.k = 0 /\ x.v < 2 THEN U32(x.v - 2, 2) ELSE U32(x.v - 2, x.k)
    IN  [drawn |-> Len(t) > 0,
         x |-> x, left |-> lx, right |-> U32(x.v + Len(t), x.k),
         underflow |-> Len(t) > 0 /\ (d < 0 \/ lx.k = 2)]

(* Dialog::draw: what each child and the title are given.                  *)
draw(t, bs, f, psize, focused) ==
    [buttons |-> [k \in 1..Len(bs) |-> draw_button(bs, f, k, psize, focused)],
     content |-> draw_content(bs, f, psize, focused),
     box |-> psize,
     title |-> draw_title(t, psize.x)]

----------------------------------------------------------------------------
(* The dialog as a state machine.                                          *)
(*   title, content, buttons, focus : the fields of Dialog                 *)
(*   pc   : "running", or "aborted" once a call has panicked               *)
(*   last : the latest call, its arguments, the answers of the children    *)
(*          and what it returned                                           *)

(* A title of n bytes.                                                     *)
TitleOf(n) == [k \in 1..n |-> "t"]

(* The content views handed to Dialog::new.                                *)
Contents == {[w |-> 0, h |-> 0, flex |-> FALSE],
             [w |-> 1, h |-> 2, flex |-> FALSE],
             [w |-> 5, h |-> 1, flex |-> TRUE],
             [w |-> 8, h |-> 3, flex |-> TRUE]}

(* SizedView::new(Button::new(label, cb)): nothing laid out yet.           *)
NewButton(d) == [view |-> [w |-> d[1], h |-> d[2], flex |-> FALSE],
                 size |-> Vec2(0, 0)]

(* The size requests a parent makes.                                       *)
Requests == {SizeRequest(Unknown, Unknown),
             SizeRequest(AtMost(3), AtMost(4)),
             SizeRequest(Fixed(7), AtMost(2))}

UnboundedReq == SizeRequest(Unknown, Unknown)

(* The sizes a parent offers to layout and draw: the minimum size the      *)
(* dialog asked for, a roomier one, and a few the terminal forces on it.   *)
OfferedSizes ==
    LET m == get_min_size(title, content, buttons, UnboundedReq)
    IN  {m, Vec2(m.x + 3, m.y + 1), Vec2(0, 0), Vec2(3, 2)}

(* Dialog::new                                                             *)
Init ==
    /\ title = <<>>
    /\ content \in Contents
    /\ buttons = <<>>
    /\ focus = Content
    /\ pc = "running"
    /\ last = [op |-> "new"]

(* Dialog::button                                                          *)
DoButton ==
    /\ pc = "running"
    /\ Len(buttons) < MaxButtons
    /\ \E d \in ButtonDims : buttons' = Append(buttons, NewButton(d))
    /\ last' = [op |-> "button"]
    /\ UNCHANGED <<title, content, focus, pc>>

(* Dialog::dismiss_button: button() with the callback that pops the layer. *)
DoDismissButton ==
    /\ pc = "running"
    /\ Len(buttons) < MaxButtons
    /\ \E d \in ButtonDims : buttons' = Append(buttons, NewButton(d))
    /\ last' = [op |-> "dismiss_button"]
    /\ UNCHANGED <<title, content, focus, pc>>

(* Dialog::title                                                           *)
DoTitle ==
    /\ pc = "running"
    /\ \E n \in TitleLens : title' = TitleOf(n)
    /\ last' = [op |-> "title"]
    /\ UNCHANGED <<content, buttons, focus, pc>>

(* Dialog::take_focus on a dialog whose content answers take_focus() with *)
(* one of answers.                                                         *)
TakeFocusWith(answers) ==
    /\ pc = "running"
    /\ \E ctf \in answers :
          LET r == take_focus(Len(buttons), ctf)
          IN  /\ focus' = r.focus
              /\ last' = [op |-> "take_focus", pre |-> focus, ctf |-> ctf,
                          asked |-> r.asked, res |-> r.res]
    /\ UNCHANGED <<title, content, buttons, pc>>

(* Dialog::take_focus                                                      *)
DoTakeFocus == TakeFocusWith(BOOLEAN)

(* Dialog::on_key_event on a dialog whose content answers take_focus()     *)
(* with one of answers.  The content answers only when it is asked.        *)
OnKeyEventWith(answers) ==
    /\ pc = "running"
    /\ \E ch \in Keys, child \in ChildResults, ctf \in answers \cup {FALSE} :
          LET r == on_key_event(focus, Len(buttons), ch, child, ctf)
          IN  /\ (r.asked \/ ~ctf)
              /\ focus' = r.focus
              /\ pc' = IF r.panic THEN "aborted" ELSE pc
              /\ last' = [op |-> "on_key_event", pre |-> focus, ch |-> ch,
                          child |-> child, asked |-> r.asked,
                          ctf |-> r.asked /\ ctf, res |-> r.res,
                          sent |-> forwarded(focus, ch)]
    /\ UNCHANGED <<title, content, buttons>>

(* Dialog::on_key_event                                                    *)
DoOnKeyEvent == OnKeyEventWith(BOOLEAN)

(* Dialog::get_min_size                                                    *)
DoGetMinSize ==
    /\ pc = "running"
    /\ \E req \in Requests :
          last' = [op |-> "get_min_size", pre |-> focus, req |-> req,
                   res |-> get_min_size(title, content, buttons, req)]
    /\ UNCHANGED <<title, content, buttons, focus, pc>>

(* DoLayout that puts the focus back on the content.                       *)
DoLayoutResetsFocus ==
    /\ pc = "running"
    /\ \E size \in OfferedSizes :
          LET r == layout(buttons, size)
          IN  /\ buttons' = r.buttons
              /\ last' = [op |-> "layout", pre |-> focus, size |-> size,
                          content_size |-> r.content_size]
    /\ focus' = Content
    /\ UNCHANGED <<title, content, pc>>

(* Dialog::layout                                                          *)
DoLayout ==
    /\ pc = "running"
    /\ \E size \in OfferedSizes :
          LET r == layout(buttons, size)
          IN  /\ buttons' = r.buttons
              /\ last' = [op |-> "layout", pre |-> focus, size |-> size,
                          content_size |-> r.content_size]
    /\ UNCHANGED <<title, content, focus, pc>>

(* Dialog::draw.  A u32 subtraction that goes below zero panics in a debug *)
(* build and wraps around in a release build.                              *)
DoDraw ==
    /\ pc = "running"
    /\ \E psize \in OfferedSizes, focused \in BOOLEAN :
          /\ pc' \in (IF draw_title(title, psize.x).underflow
                      THEN {"aborted", "running"} ELSE {"running"})
          /\ last' = [op |-> "draw", pre |-> focus, size |-> psize,
                      focused |-> focused,
                      out |-> draw(title, buttons, focus, psize, focused)]
    /\ UNCHANGED <<title, content, buttons, focus>>

Next ==
    \/ DoButton
    \/ DoDismissButton
    \/ DoTitle
    \/ DoTakeFocus
    \/ DoOnKeyEvent
    \/ DoGetMinSize
    \/ DoLayout
    \/ DoDraw

Spec == Init /\ [][Next]_vars

(* The same dialog around a content that cannot take the focus, such as a  *)
(* static text: its take_focus() always answers false.                     *)
DoTakeFocusRefused == TakeFocusWith({FALSE})

DoOnKeyEventRefused == OnKeyEventWith({FALSE})

NextRefusing ==
    \/ DoButton
    \/ DoDismissButton
    \/ DoTitle
    \/ DoTakeFocusRefused
    \/ DoOnKeyEventRefused
    \/ DoGetMinSize
    \/ DoLayout
    \/ DoDraw

SpecRefusing == Init /\ [][NextRefusing]_vars

----------------------------------------------------------------------------
(* Properties of the focus state machine.                                  *)

NumButtons == Len(buttons)

LastIs(op) == last.op = op

(* A key event that reached button i, which ignored the key ch.            *)
ButtonIgnored(ch) ==
    /\ LastIs("on_key_event")
    /\ last.pre # Content
    /\ last.child = Ignored
    /\ last.ch = ch

(* C1: the focus is Content or Button(i) with i below the number of        *)
(* buttons, after any sequence of builder calls, take_focus, on_key_event, *)
(* get_min_size, layout and draw; without buttons the focus is Content,    *)
(* and no call ever indexes a button out of range.                         *)
C1_FocusIndexInvariant ==
    /\ focus = Content \/ (focus.tag = "Button" /\ focus.i \in 0..(NumButtons - 1))
    /\ NumButtons = 0 => focus = Content
    /\ LastIs("on_key_event") => pc = "running"

C1_Witness ==
    /\ LastIs("on_key_event")
    /\ last.ch = KEY_RIGHT
    /\ last.child = Ignored
    /\ NumButtons = MaxButtons
    /\ last.pre = Button(NumButtons - 1)
    /\ focus = Button(NumButtons - 1)

(* C2: with at least one button, take_focus() returns true and leaves the  *)
(* focus at Button(0) from every prior focus, whatever the content would   *)
(* answer to take_focus(); the content is not even asked.                  *)
C2_TakeFocusWithButtons ==
    (LastIs("take_focus") /\ NumButtons > 0) =>
        /\ last.res = TRUE
        /\ focus = Button(0)
        /\ ~last.asked

C2_Witness ==
    /\ LastIs("take_focus")
    /\ NumButtons > 1
    /\ last.pre = Button(1)
    /\ last.ctf = TRUE
    /\ focus = Button(0)

(* C3: without buttons, take_focus() returns what the content's            *)
(* take_focus() returns, and the focus is Content whether it succeeded or  *)
(* failed.                                                                 *)
C3_TakeFocusWithoutButtons ==
    (LastIs("take_focus") /\ NumButtons = 0) =>
        /\ last.asked
        /\ last.res = last.ctf
        /\ focus = Content

C3_Witness ==
    /\ LastIs("take_focus")
    /\ NumButtons = 0
    /\ last.ctf = FALSE
    /\ last.res = FALSE
    /\ focus = Content

(* C4: from Content, a move-down key the content ignores moves the focus   *)
(* to Button(0) and is Consumed with no follow-up when a button exists;    *)
(* any other ignored key, or no button, leaves the focus on Content and    *)
(* the result Ignored; a Consumed answer of the content is returned as it  *)
(* is, the focus staying on Content.                                       *)
C4_ContentKeys ==
    (LastIs("on_key_event") /\ last.pre = Content) =>
        /\ (last.child = Ignored /\ last.ch = KEY_DOWN /\ NumButtons > 0) =>
              (focus = Button(0) /\ last.res = Consumed("None"))
        /\ (last.child = Ignored /\ ~(last.ch = KEY_DOWN /\ NumButtons > 0)) =>
              (focus = Content /\ last.res = Ignored)
        /\ last.child # Ignored =>
              (focus = Content /\ last.res = last.child)
        /\ ~last.asked

C4_Witness ==
    /\ LastIs("on_key_event")
    /\ last.pre = Content
    /\ last.child = Ignored
    /\ last.ch = KEY_DOWN
    /\ NumButtons = 1
    /\ focus = Button(0)
    /\ last.res = Consumed("None")

(* C5: from Button(i), a move-right key the button ignores leaves the      *)
(* focus at Button(i) with result Ignored when i is the last index, and    *)
(* otherwise moves it to exactly Button(i + 1) with result Consumed.       *)
C5_MoveRight ==
    ButtonIgnored(KEY_RIGHT) =>
        IF last.pre.i = NumButtons - 1
        THEN focus = last.pre /\ last.res = Ignored
        ELSE focus = Button(last.pre.i + 1) /\ last.res = Consumed("None")

C5_Witness ==
    /\ ButtonIgnored(KEY_RIGHT)
    /\ last.pre = Button(0)
    /\ focus = Button(1)
    /\ last.res = Consumed("None")

(* C6: from Button(i), a move-up key the button ignores asks the content   *)
(* to take the focus: if it accepts, the focus becomes Content and the     *)
(* event is Consumed; if it refuses, the focus stays Button(i) and the     *)
(* event is Ignored.                                                       *)
C6_MoveUp ==
    ButtonIgnored(KEY_UP) =>
        /\ last.asked
        /\ IF last.ctf
           THEN focus = Content /\ last.res = Consumed("None")
           ELSE focus = last.pre /\ last.res = Ignored

C6_Witness ==
    /\ ButtonIgnored(KEY_UP)
    /\ last.pre = Button(1)
    /\ ~last.ctf
    /\ focus = Button(1)
    /\ last.res = Ignored

(* C7: from Button(i), a move-left key the button ignores moves the focus  *)
(* to exactly Button(i - 1) with result Consumed when i > 0, and leaves it *)
(* at Button(0) with result Ignored when i = 0.                            *)
C7_MoveLeft ==
    ButtonIgnored(KEY_LEFT) =>
        IF last.pre.i > 0
        THEN focus = Button(last.pre.i - 1) /\ last.res = Consumed("None")
        ELSE focus = Button(0) /\ last.res = Ignored

C7_Witness ==
    /\ ButtonIgnored(KEY_LEFT)
    /\ last.pre = Button(0)
    /\ NumButtons = MaxButtons
    /\ focus = Button(0)
    /\ last.res = Ignored

(* C13: a key the focused child consumes, arrow keys included, is returned *)
(* as the child returned it and leaves the focus where it was; a key a     *)
(* button ignores that is not move-up, move-left or move-right (move-down  *)
(* included) leaves the focus on that button and is Ignored.               *)
C13_ConsumedAndOtherKeys ==
    LastIs("on_key_event") =>
        /\ last.child # Ignored =>
              (last.res = last.child /\ focus = last.pre /\ ~last.asked)
        /\ (/\ last.pre # Content
            /\ last.child = Ignored
            /\ last.ch \notin {KEY_UP, KEY_LEFT, KEY_RIGHT}) =>
              (focus = last.pre /\ last.res = Ignored /\ ~last.asked)

C13_Witness ==
    /\ LastIs("on_key_event")
    /\ NumButtons = 2
    /\ last.pre = Button(0)
    /\ last.ch = KEY_RIGHT
    /\ last.child = Consumed("Some")
    /\ last.res = Consumed("Some")
    /\ focus = Button(0)

(* C17, as claimed: the focus and the result a key event ends with are     *)
(* determined by the focus at the call, the key and the number of buttons  *)
(* alone, so that any dialog in that focus with that many buttons ends the *)
(* same on that key, whatever its children answer.                         *)
C17_OutcomeFromFocusKeyCount ==
    LastIs("on_key_event") =>
        \A child \in ChildResults, ctf \in BOOLEAN :
            /\ on_key_event(last.pre, NumButtons, last.ch, child, ctf).focus = focus
            /\ on_key_event(last.pre, NumButtons, last.ch, child, ctf).res = last.res

(* The transitions of the focus as a table: the focus and the result for   *)
(* a focus, a key, a number of buttons, the answer of the focused child    *)
(* and the answer of the content to take_focus().                          *)
KeyTable(pre, ch, nb, child, ctf) ==
    IF child # Ignored THEN <<pre, child>>
    ELSE IF pre = Content
         THEN IF ch = KEY_DOWN /\ nb >= 1
              THEN <<Button(0), Consumed("None")>>
              ELSE <<Content, Ignored>>
         ELSE CASE ch = KEY_UP /\ ctf -> <<Content, Consumed("None")>>
                [] ch = KEY_RIGHT /\ pre.i <= nb - 2 ->
                      <<Button(pre.i + 1), Consumed("None")>>
                [] ch = KEY_LEFT /\ pre.i >= 1 ->
                      <<Button(pre.i - 1), Consumed("None")>>
                [] OTHER -> <<pre, Ignored>>

(* C17, amended: the focus and the result a key event ends with are        *)
(* determined by the focus at the call, the key, the number of buttons,    *)
(* the answer of the focused child to the key and, for a move-up a button  *)
(* ignored, the answer of the content to take_focus().                     *)
C17_OutcomeFromFocusKeyCountAnswers ==
    LastIs("on_key_event") =>
        <<focus, last.res>> =
            KeyTable(last.pre, last.ch, NumButtons, last.child, last.ctf)

C17_Witness ==
    /\ LastIs("on_key_event")
    /\ last.pre = Button(1)
    /\ last.ch = KEY_LEFT
    /\ last.child = Ignored
    /\ focus = Button(0)
    /\ last.res = Consumed("None")

(* C18: a key event hands the key, as it came, to exactly one child: the   *)
(* content when the focus was Content at the call, button i when it was    *)
(* Button(i); a move of the focus by the dialog itself returns Consumed    *)
(* with no follow-up, so the only callback a key event can return is the   *)
(* one that child returned.                                                *)
C18_OneChildPerKey ==
    LastIs("on_key_event") =>
        /\ Len(last.sent) = 1
        /\ last.sent[1].ch = last.ch
        /\ last.sent[1].to = (IF last.pre = Content THEN <<"content">>
                              ELSE <<"button", last.pre.i>>)
        /\ focus # last.pre => last.res = Consumed("None")
        /\ last.res = Consumed("Some") => last.child = Consumed("Some")

C18_Witness ==
    /\ LastIs("on_key_event")
    /\ NumButtons = 2
    /\ last.pre = Button(1)
    /\ last.sent = <<[to |-> <<"button", 1>>, ch |-> KEY_UP]>>
    /\ last.child = Consumed("Some")
    /\ last.res = Consumed("Some")

(* C20: around a content that refuses every take_focus(), a dialog starts  *)
(* with the focus on Content, but once take_focus() has been called on it  *)
(* with at least one button the focus is on a button and no key event or   *)
(* further take_focus() brings it back to Content, so that no key is       *)
(* routed to the content any more.                                         *)
C20_NeverBackToContent ==
    /\ focus = Content
    /\ [][/\ (NumButtons > 0 /\ (focus # Content \/ last'.op = "take_focus")) =>
                focus' # Content
          /\ (focus # Content /\ last'.op = "on_key_event") =>
                last'.sent[1].to # <<"content">>
         ]_vars

C20_Witness ==
    /\ LastIs("on_key_event")
    /\ NumButtons = 1
    /\ last.pre = Button(0)
    /\ last.ch = KEY_UP
    /\ last.child = Ignored
    /\ last.asked
    /\ ~last.ctf
    /\ focus = Button(0)

----------------------------------------------------------------------------
(* Properties of the size negotiation.                                     *)

(* The sum over the buttons of (declared width + 1).                       *)
RECURSIVE SumWidthsPlusOne(_)
SumWidthsPlusOne(bs) ==
    IF bs = <<>> THEN 0
    ELSE Head(bs).view.w + 1 + SumWidthsPlusOne(Tail(bs))

(* The largest over the buttons of (declared height + 1), 0 without one.   *)
MaxHeightPlusOne(bs) ==
    IF bs = <<>> THEN 0
    ELSE CHOOSE m \in {bs[k].view.h + 1 : k \in 1..Len(bs)} :
            \A k \in 1..Len(bs) : bs[k].view.h + 1 <= m

(* What the content answered to the request it was handed: the dialog's    *)
(* request less 4 columns and 2 rows of borders and padding.               *)
ContentAnswer(req) == view_min_size(content, reduced(req, Vec2(4, 2)))

(* The minimum size of the dialog with its title left out.                 *)
UntitledMinSize(req) ==
    Vec2(Max(ContentAnswer(req).x, SumWidthsPlusOne(buttons)) + 4,
         ContentAnswer(req).y + MaxHeightPlusOne(buttons) + 2)

ButtonWidths == [k \in 1..NumButtons |-> buttons[k].view.w]

(* C8: without a title, get_min_size returns the width                     *)
(* max(cw, sum of (w_i + 1)) + 4 and the height ch + max of (h_i + 1) + 2  *)
(* (0 for the buttons when there are none); a content of (0,0) with        *)
(* buttons of widths 4 and 6 gives a row of 12 and a dialog width of 16.   *)
C8_MinSizeUntitled ==
    (LastIs("get_min_size") /\ title = <<>>) =>
        /\ last.res = UntitledMinSize(last.req)
        /\ (ContentAnswer(last.req) = Vec2(0, 0) /\ ButtonWidths = <<4, 6>>) =>
              (SumWidthsPlusOne(buttons) = 12 /\ last.res.x = 16)

C8_Witness ==
    /\ LastIs("get_min_size")
    /\ title = <<>>
    /\ ContentAnswer(last.req) = Vec2(0, 0)
    /\ ButtonWidths = <<4, 6>>
    /\ last.res = Vec2(16, 5)

(* C9: with a title of L > 0 bytes, the minimum width is the larger of the *)
(* untitled minimum width and L + 6, hence at least L + 6, and the minimum *)
(* height is the untitled one; an empty title changes nothing.             *)
C9_MinSizeTitled ==
    LastIs("get_min_size") =>
        /\ Len(title) > 0 =>
              /\ last.res.x = Max(UntitledMinSize(last.req).x, Len(title) + 6)
              /\ last.res.x >= Len(title) + 6
              /\ last.res.y = UntitledMinSize(last.req).y
        /\ Len(title) = 0 => last.res = UntitledMinSize(last.req)

C9_Witness ==
    /\ LastIs("get_min_size")
    /\ Len(title) = 5
    /\ UntitledMinSize(last.req).x < 11
    /\ last.res.x = 11

(* C10: layout(size) with size = get_min_size(unbounded request) hands     *)
(* the content at least the minimum it declares on both axes, and every    *)
(* button at least the minimum it declares.                                *)
C10_LayoutRoundTrip ==
    (/\ LastIs("layout")
     /\ last.size = get_min_size(title, content, buttons, UnboundedReq)) =>
        /\ last.content_size.x >= view_min_size(content, UnboundedReq).x
        /\ last.content_size.y >= view_min_size(content, UnboundedReq).y
        /\ \A k \in 1..NumButtons :
              /\ buttons[k].size.x >= view_min_size(buttons[k].view, UnboundedReq).x
              /\ buttons[k].size.y >= view_min_size(buttons[k].view, UnboundedReq).y

C10_Witness ==
    /\ LastIs("layout")
    /\ last.size = get_min_size(title, content, buttons, UnboundedReq)
    /\ NumButtons = 2
    /\ buttons[1].view.h # buttons[2].view.h
    /\ content.h = 3
    /\ last.content_size.y = 3
    /\ Len(title) > 0

----------------------------------------------------------------------------
(* Properties of layout and drawing.                                       *)

(* C11: whatever size is offered, down to (0,0), every subtraction of      *)
(* layout and of draw (interior size, button offsets, content region,      *)
(* title position x and x - 2) is clamped at zero: nothing computed is     *)
(* negative or wrapped around, and the call completes instead of aborting. *)
C11_SubtractionsClamped ==
    /\ LastIs("layout") =>
          /\ pc = "running"
          /\ last.content_size.x >= 0 /\ last.content_size.y >= 0
    /\ LastIs("draw") =>
          /\ pc = "running"
          /\ last.out.content.size.x >= 0 /\ last.out.content.size.y >= 0
          /\ \A k \in 1..NumButtons :
                last.out.buttons[k].offset.x >= 0 /\ last.out.buttons[k].offset.y >= 0
          /\ last.out.title.drawn =>
                /\ ~last.out.title.underflow
                /\ last.out.title.x.k = 0 /\ last.out.title.x.v >= 0
                /\ last.out.title.left.k = 0 /\ last.out.title.left.v >= 0

(* The children a draw call has drawn with has_focus = true.               *)
DrawnFocused ==
    {<<"button", k - 1>> : k \in {j \in 1..NumButtons : last.out.buttons[j].has_focus}}
        \cup (IF last.out.content.has_focus THEN {<<"content">>} ELSE {})

(* C12: a dialog drawn with focused = false draws no child with            *)
(* has_focus = true; drawn with focused = true it draws exactly one child  *)
(* with has_focus = true, the content when the focus is Content and        *)
(* button i when it is Button(i).                                          *)
C12_DrawFocusFlags ==
    LastIs("draw") =>
        /\ DOMAIN last.out.buttons = 1..NumButtons
        /\ ~last.focused => DrawnFocused = {}
        /\ last.focused =>
              DrawnFocused = (IF focus = Content THEN {<<"content">>}
                              ELSE {<<"button", focus.i>>})

C12_Witness ==
    /\ LastIs("draw")
    /\ last.focused
    /\ NumButtons = 2
    /\ focus = Button(1)
    /\ last.out.buttons[2].has_focus
    /\ ~last.out.buttons[1].has_focus
    /\ ~last.out.content.has_focus

(* The offered size less 4 columns and 2 rows of borders and padding.      *)
Interior(size) == Vec2(Max(size.x - 4, 0), Max(size.y - 2, 0))

(* The at-most request built from the interior.                            *)
InteriorRequest(size) ==
    SizeRequest(AtMost(Interior(size).x), AtMost(Interior(size).y))

(* C14: whatever size is offered, layout gives each button exactly the     *)
(* minimum size it reports under the at-most request built from the        *)
(* interior, and gives the content the interior width and the interior     *)
(* height less buttons_height, the largest button height plus one (0       *)
(* without buttons); only the content is compressed.                       *)
C14_LayoutButtonsFirst ==
    LastIs("layout") =>
        /\ \A k \in 1..NumButtons :
              /\ buttons[k].size =
                    view_min_size(buttons[k].view, InteriorRequest(last.size))
              /\ buttons[k].size = Vec2(buttons[k].view.w, buttons[k].view.h)
        /\ last.content_size =
              Vec2(Interior(last.size).x,
                   Max(Interior(last.size).y - MaxHeightPlusOne(buttons), 0))

C14_Witness ==
    /\ LastIs("layout")
    /\ last.size = Vec2(3, 2)
    /\ NumButtons = 2
    /\ buttons[1].size = Vec2(4, 1)
    /\ buttons[2].size = Vec2(6, 2)
    /\ content.h = 3
    /\ last.content_size = Vec2(0, 0)

(* The surface of the latest draw is at least the dialog's minimum size.   *)
DrawnAtLeastMinSize ==
    /\ LastIs("draw")
    /\ last.size.x >= get_min_size(title, content, buttons, UnboundedReq).x
    /\ last.size.y >= get_min_size(title, content, buttons, UnboundedReq).y

(* C15: drawn on a surface at least as large as the minimum size, the      *)
(* buttons stand left to right in insertion order, the last one with its   *)
(* right edge on the right inner edge, consecutive ones exactly one blank  *)
(* cell apart, all of them inside the interior rectangle, and at least one *)
(* blank row lies between the content region and the top of every button.  *)
C15_ButtonRowGeometry ==
    DrawnAtLeastMinSize =>
        /\ \A k \in 1..(NumButtons - 1) :
              last.out.buttons[k].offset.x + last.out.buttons[k].size.x + 1
                 = last.out.buttons[k + 1].offset.x
        /\ NumButtons > 0 =>
              last.out.buttons[NumButtons].offset.x
                 + last.out.buttons[NumButtons].size.x = last.size.x - 2
        /\ \A k \in 1..NumButtons :
              /\ last.out.buttons[k].offset.x >= 2
              /\ last.out.buttons[k].offset.x + last.out.buttons[k].size.x
                    <= last.size.x - 2
              /\ last.out.buttons[k].offset.y >= 1
              /\ last.out.buttons[k].offset.y + last.out.buttons[k].size.y
                    <= last.size.y - 1
              /\ last.out.content.offset.y + last.out.content.size.y + 1
                    <= last.out.buttons[k].offset.y

C15_Witness ==
    /\ DrawnAtLeastMinSize
    /\ last.size = get_min_size(title, content, buttons, UnboundedReq)
    /\ NumButtons = 2
    /\ last.out.buttons[1].size = Vec2(4, 1)
    /\ last.out.buttons[2].size = Vec2(6, 2)
    /\ last.out.buttons[1].offset = Vec2(3, 3)
    /\ last.out.buttons[2].offset = Vec2(8, 2)
    /\ content.w = 0

(* C16: a title of L > 0 bytes drawn on a surface of width W at least the  *)
(* minimum width (so W >= L + 6) stands at x = (W - L) / 2 with            *)
(* x - 2 >= 1 and x + L + 2 <= W - 1: both junction pairs and the text lie *)
(* on the top border strictly between the corners; an empty title draws    *)
(* nothing on the top border.                                              *)
C16_TitlePosition ==
    /\ (DrawnAtLeastMinSize /\ Len(title) > 0) =>
          /\ last.size.x >= Len(title) + 6
          /\ pc = "running"
          /\ last.out.title.drawn
          /\ ~last.out.title.underflow
          /\ last.out.title.x = U32((last.size.x - Len(title)) \div 2, 0)
          /\ last.out.title.left = U32(last.out.title.x.v - 2, 0)
          /\ last.out.title.right = U32(last.out.title.x.v + Len(title), 0)
          /\ last.out.title.left.v >= 1
          /\ last.out.title.right.v + 2 <= last.size.x - 1
    /\ (LastIs("draw") /\ Len(title) = 0) => ~last.out.title.drawn

C16_Witness ==
    /\ DrawnAtLeastMinSize
    /\ Len(title) = 5
    /\ last.size.x = 11
    /\ last.out.title.x = U32(3, 0)
    /\ last.out.title.left = U32(1, 0)
    /\ last.out.title.right = U32(8, 0)

(* C19: get_min_size, layout and draw change neither the focus nor the     *)
(* number of buttons nor the title; the focus changes only in              *)
(* on_key_event and take_focus; and what get_min_size returns depends on   *)
(* the request, the title, the content and the buttons only, so that a     *)
(* second call with the same request on an unchanged dialog returns the    *)
(* same size.                                                              *)
C19_SizingAndDrawingFrame ==
    [][/\ last'.op \in {"get_min_size", "layout", "draw"} =>
             /\ focus' = focus
             /\ Len(buttons') = Len(buttons)
             /\ title' = title
       /\ focus' # focus => last'.op \in {"on_key_event", "take_focus"}
       /\ last'.op = "get_min_size" =>
             /\ last'.res.x = (IF Len(title) > 0
                               THEN Max(UntitledMinSize(last'.req).x, Len(title) + 6)
                               ELSE UntitledMinSize(last'.req).x)
             /\ last'.res.y = UntitledMinSize(last'.req).y
             /\ (LastIs("get_min_size") /\ last'.req = last.req) =>
                   last'.res = last.res
      ]_vars

C19_Witness ==
    /\ LastIs("layout")
    /\ NumButtons = 2
    /\ last.pre = Button(1)
    /\ focus = Button(1)
    /\ buttons[2].size = Vec2(buttons[2].view.w, buttons[2].view.h)
    /\ Len(title) = 2

====
